---------------------------- MODULE Spec2Model ----------------------------
(***************************************************************************)
(* AWS Signature Version 4 signing (signv4.go) and Authorization header    *)
(* parsing (verify.go) of package sign4.                                   *)
(*                                                                         *)
(* Strings and byte slices are sequences of one-character strings, so that *)
(* splitting, slicing, prefix tests and sorting are computed as the code   *)
(* computes them.  A header map is a function from the stored key to the   *)
(* sequence of its values.                                                 *)
(***************************************************************************)
EXTENDS Integers, Sequences, FiniteSets, TLC

\* --------------------------------------------------------------- bounds
\* Header.Add calls the environment makes on one request.
MaxAdds == 2
\* Calls of the package's functions on one request.
MaxCalls == 3

\* ----------------------------------------------------------- characters
\* The characters of the model, in increasing byte order (the order of
\* sort.Strings).
Chars ==
  <<"\n", " ", "\"", "%", "&", "+", ",", "-", ".", "/",
    "0", "1", "2", "3", "4", "5", "6", "7", "8", "9", ":", ";", "=",
    "A", "B", "C", "D", "E", "F", "G", "H", "I", "J", "K", "L", "M",
    "N", "O", "P", "Q", "R", "S", "T", "U", "V", "W", "X", "Y", "Z", "_",
    "a", "b", "c", "d", "e", "f", "g", "h", "i", "j", "k", "l", "m",
    "n", "o", "p", "q", "r", "s", "t", "u", "v", "w", "x", "y", "z">>

CharSet == {Chars[i] : i \in 1..Len(Chars)}

\* The rank of a character in byte order.
Ord == [c \in CharSet |-> CHOOSE i \in 1..Len(Chars) : Chars[i] = c]

IsUpper(c) == Ord[c] >= Ord["A"] /\ Ord[c] <= Ord["Z"]
IsLower(c) == Ord[c] >= Ord["a"] /\ Ord[c] <= Ord["z"]

ToLowerChar(c) == IF IsUpper(c) THEN Chars[Ord["a"] + (Ord[c] - Ord["A"])] ELSE c
ToUpperChar(c) == IF IsLower(c) THEN Chars[Ord["A"] + (Ord[c] - Ord["a"])] ELSE c

\* strings.ToLower
ToLower(str) == [i \in 1..Len(str) |-> ToLowerChar(str[i])]

\* ------------------------------------------------------- string helpers
Min(S) == CHOOSE x \in S : \A y \in S : x <= y

\* strings.HasPrefix
HasPrefix(str, p) == Len(str) >= Len(p) /\ SubSeq(str, 1, Len(p)) = p

\* str[n:] of Go (n counted from 0), for 0 <= n <= len(str)
From(str, n) == SubSeq(str, n + 1, Len(str))

\* strings.Split with a separator of one character
RECURSIVE Split(_, _)
Split(str, c) ==
  LET idx == {i \in 1..Len(str) : str[i] = c}
  IN  IF idx = {} THEN <<str>>
      ELSE <<SubSeq(str, 1, Min(idx) - 1)>> \o Split(From(str, Min(idx)), c)

\* strings.Join
RECURSIVE Join(_, _)
Join(strs, sep) ==
  IF Len(strs) = 0 THEN <<>>
  ELSE IF Len(strs) = 1 THEN strs[1]
  ELSE strs[1] \o sep \o Join(Tail(strs), sep)

\* strings.Trim(str, " ") and, on this alphabet, strings.TrimSpace
RECURSIVE TrimLeft(_)
TrimLeft(str) ==
  IF Len(str) > 0 /\ str[1] = " " THEN TrimLeft(Tail(str)) ELSE str

RECURSIVE TrimRight(_)
TrimRight(str) ==
  IF Len(str) > 0 /\ str[Len(str)] = " "
  THEN TrimRight(SubSeq(str, 1, Len(str) - 1)) ELSE str

Trim(str) == TrimRight(TrimLeft(str))

\* strings.Replace(str, "+", "%20", -1)
\* the first and the second half of a string (the loops over the bytes of
\* a string are unfolded by halves, which keeps the evaluation shallow)
Left(str) == SubSeq(str, 1, Len(str) \div 2)
Right(str) == SubSeq(str, (Len(str) \div 2) + 1, Len(str))

RECURSIVE ReplacePlus(_)
ReplacePlus(str) ==
  IF Len(str) = 0 THEN <<>>
  ELSE IF Len(str) = 1 THEN (IF str[1] = "+" THEN <<"%", "2", "0">> ELSE str)
  ELSE ReplacePlus(Left(str)) \o ReplacePlus(Right(str))

\* a < b in byte order (the order of sort.Strings)
StrLess(a, b) ==
  LET n    == IF Len(a) < Len(b) THEN Len(a) ELSE Len(b)
      diff == {i \in 1..n : a[i] # b[i]}
  IN  IF diff = {} THEN Len(a) < Len(b)
      ELSE Ord[a[Min(diff)]] < Ord[b[Min(diff)]]

\* sort.Strings: the strings of strs in increasing order, duplicates kept
RECURSIVE Insert(_, _)
Insert(x, sorted) ==
  IF Len(sorted) = 0 THEN <<x>>
  ELSE IF StrLess(sorted[1], x) THEN <<sorted[1]>> \o Insert(x, Tail(sorted))
  ELSE <<x>> \o sorted

RECURSIVE SortStrings(_)
SortStrings(strs) ==
  IF Len(strs) = 0 THEN <<>> ELSE Insert(strs[1], SortStrings(Tail(strs)))

\* The members of a finite set as a sequence, in some order (the order of
\* a Go map iteration is unspecified; every use sorts the result).
RECURSIVE SetToSeq(_)
SetToSeq(S) ==
  IF S = {} THEN <<>>
  ELSE LET x == CHOOSE y \in S : TRUE IN <<x>> \o SetToSeq(S \ {x})

Range(f) == {f[i] : i \in DOMAIN f}

\* ------------------------------------------------------------- digests
\* crypto/sha256 and crypto/hmac are library code.  A digest is modelled by
\* a 15-bit hash of the bytes, and a digest's bytes are written as
\* their four lower-case hexadecimal digits, so that fmt.Sprintf("%x", sum)
\* yields those digits.  Neither Write ever returns an error (hash.Hash).
HexDigits == <<"0", "1", "2", "3", "4", "5", "6", "7", "8", "9", "a", "b", "c", "d", "e", "f">>

\* the hash of bytes[lo..hi]: a byte is its rank, two halves are mixed
RECURSIVE Mix(_, _, _)
Mix(bytes, lo, hi) ==
  IF lo = hi THEN Ord[bytes[lo]]
  ELSE LET mid == (lo + hi) \div 2
       IN  (Mix(bytes, lo, mid) * 33 + Mix(bytes, mid + 1, hi) * 7
              + (hi - lo)) % 32768

HashOf(bytes) == IF Len(bytes) = 0 THEN 7 ELSE Mix(bytes, 1, Len(bytes))

Sha256Sum(bytes) ==
  LET n == HashOf(bytes)
  IN  <<HexDigits[(n \div 4096) + 1], HexDigits[((n \div 256) % 16) + 1],
        HexDigits[((n \div 16) % 16) + 1], HexDigits[(n % 16) + 1]>>

\* hmacsha256: HMAC-SHA256 of data under key; the error is always nil
hmacsha256(key, data) ==
  [sum |-> Sha256Sum(<<"o">> \o key \o Sha256Sum(<<"i">> \o key \o data)),
   err |-> FALSE]

\* HexEncodeSHA256Hash
HexEncodeSHA256Hash(body) == [hex |-> Sha256Sum(body), err |-> FALSE]

\* ---------------------------------------------------------------- time
\* A time.Time is [day, sec, nsec]: a day of September 2011 and a second of
\* the minute 23:36 UTC, with the nanoseconds that time.Now carries.
TwoDigits(n) == <<HexDigits[(n \div 10) + 1], HexDigits[(n % 10) + 1]>>

\* the number two decimal digits spell, or -1
Atoi2(str) ==
  IF \E n \in 0..99 : TwoDigits(n) = str
  THEN CHOOSE n \in 0..99 : TwoDigits(n) = str
  ELSE -1

\* t.UTC().Format(BasicDateFormatShort)
FormatShort(t) == <<"2", "0", "1", "1", "0", "9">> \o TwoDigits(t.day)

\* t.UTC().Format(BasicDateFormat)
FormatBasic(t) ==
  FormatShort(t) \o <<"T", "2", "3", "3", "6">> \o TwoDigits(t.sec) \o <<"Z">>

NoTime == [day |-> 0, sec |-> 0, nsec |-> 0]

\* time.Parse(BasicDateFormat, str)
ParseBasic(str) ==
  LET day == Atoi2(SubSeq(str, 7, 8))
      sec == Atoi2(SubSeq(str, 14, 15))
  IN  IF /\ Len(str) = 16
         /\ SubSeq(str, 1, 6) = <<"2", "0", "1", "1", "0", "9">>
         /\ SubSeq(str, 9, 13) = <<"T", "2", "3", "3", "6">>
         /\ str[16] = "Z"
         /\ day >= 1 /\ day <= 30
         /\ sec >= 0 /\ sec <= 59
      THEN [t |-> [day |-> day, sec |-> sec, nsec |-> 0], err |-> FALSE]
      ELSE [t |-> NoTime, err |-> TRUE]

DayNames == {<<"M", "o", "n">>, <<"T", "u", "e">>, <<"W", "e", "d">>, <<"T", "h", "u">>, <<"F", "r", "i">>, <<"S", "a", "t">>, <<"S", "u", "n">>}

\* time.Parse(time.RFC1123, str): the name of the weekday is read and not
\* compared with the date
ParseRFC1123(str) ==
  LET day == Atoi2(SubSeq(str, 6, 7))
      sec == Atoi2(SubSeq(str, 24, 25))
  IN  IF /\ Len(str) = 29
         /\ SubSeq(str, 1, 3) \in DayNames
         /\ SubSeq(str, 4, 5) = <<",", " ">>
         /\ SubSeq(str, 8, 23) = <<" ", "S", "e", "p", " ", "2", "0", "1", "1", " ", "2", "3", ":", "3", "6", ":">>
         /\ SubSeq(str, 26, 29) \in {<<" ", "G", "M", "T">>, <<" ", "U", "T", "C">>}
         /\ day >= 1 /\ day <= 30
         /\ sec >= 0 /\ sec <= 59
      THEN [t |-> [day |-> day, sec |-> sec, nsec |-> 0], err |-> FALSE]
      ELSE [t |-> NoTime, err |-> TRUE]

\* ------------------------------------------------------- http.Header
\* textproto.CanonicalMIMEHeaderKey on a name of letters, digits and "-":
\* the first letter and every letter after a "-" in upper case, the others
\* in lower case.
CanonicalMIMEHeaderKey(name) ==
  [i \in 1..Len(name) |->
     IF i = 1 \/ name[i - 1] = "-" THEN ToUpperChar(name[i])
     ELSE ToLowerChar(name[i])]

\* Header.Get: the first value stored under the canonical key, or ""
HeaderGet(h, name) ==
  LET k == CanonicalMIMEHeaderKey(name)
  IN  IF k \in DOMAIN h /\ Len(h[k]) > 0 THEN h[k][1] ELSE <<>>

\* Header.Set
HeaderSet(h, name, value) ==
  LET k == CanonicalMIMEHeaderKey(name)
  IN  [x \in DOMAIN h \cup {k} |-> IF x = k THEN <<value>> ELSE h[x]]

\* Header.Add
HeaderAdd(h, name, value) ==
  LET k == CanonicalMIMEHeaderKey(name)
  IN  [x \in DOMAIN h \cup {k} |->
         IF x = k THEN (IF k \in DOMAIN h THEN h[k] ELSE <<>>) \o <<value>>
         ELSE h[x]]

\* Header.Del
HeaderDel(h, name) ==
  [x \in DOMAIN h \ {CanonicalMIMEHeaderKey(name)} |-> h[x]]

\* ------------------------------------------------- canonical request
\* url.QueryEscape: letters, digits, "-", "_" and "." stay, a space becomes
\* "+", every other byte becomes "%" and its two hexadecimal digits.
EscapeChar(c) ==
  IF IsUpper(c) \/ IsLower(c) \/ c \in {"-", "_", "."} THEN <<c>>
  ELSE IF Ord[c] >= Ord["0"] /\ Ord[c] <= Ord["9"] THEN <<c>>
  ELSE CASE c = " "  -> <<"+">>
         [] c = "\n" -> <<"%", "0", "A">>
         [] c = "\"" -> <<"%", "2", "2">>
         [] c = "%"  -> <<"%", "2", "5">>
         [] c = "&"  -> <<"%", "2", "6">>
         [] c = "+"  -> <<"%", "2", "B">>
         [] c = ","  -> <<"%", "2", "C">>
         [] c = "/"  -> <<"%", "2", "F">>
         [] c = ":"  -> <<"%", "3", "A">>
         [] c = ";"  -> <<"%", "3", "B">>
         [] c = "="  -> <<"%", "3", "D">>

RECURSIVE QueryEscape(_)
QueryEscape(str) ==
  IF Len(str) = 0 THEN <<>>
  ELSE IF Len(str) = 1 THEN EscapeChar(str[1])
  ELSE QueryEscape(Left(str)) \o QueryEscape(Right(str))

\* the loop of CanonicalURI over the segments of the path
RECURSIVE UriSegments(_, _)
UriSegments(pattens, uri) ==
  IF Len(pattens) = 0 THEN uri
  ELSE LET v == pattens[1]
       IN  UriSegments(Tail(pattens),
             IF v = <<>> \/ v = <<".">> THEN uri
             ELSE IF v = <<".", ".">>
                  THEN (IF Len(uri) > 0 THEN SubSeq(uri, 1, Len(uri) - 1) ELSE uri)
                  ELSE Append(uri, QueryEscape(v)))

\* CanonicalURI
CanonicalURI(r) ==
  ReplacePlus(<<"/">> \o Join(UriSegments(Split(r.Path, "/"), <<>>), <<"/">>))

\* the entries CanonicalQueryString makes of one key and its values
RECURSIVE QueryEntries(_, _)
QueryEntries(key, values) ==
  IF Len(values) = 0 THEN <<>>
  ELSE LET k  == QueryEscape(key)
           v  == values[1]
           kv == IF v = <<>> THEN k ELSE k \o <<"=">> \o QueryEscape(v)
       IN  <<ReplacePlus(kv)>> \o QueryEntries(key, Tail(values))

RECURSIVE AllQueryEntries(_, _)
AllQueryEntries(q, keys) ==
  IF Len(keys) = 0 THEN <<>>
  ELSE QueryEntries(keys[1], q[keys[1]]) \o AllQueryEntries(q, Tail(keys))

\* CanonicalQueryString
CanonicalQueryString(r) ==
  Join(SortStrings(AllQueryEntries(r.Query, SetToSeq(DOMAIN r.Query))), <<"&">>)

\* trimString: the spaces around the value removed, and every run of spaces
\* outside double quotes reduced to one space
RECURSIVE TrimLoop(_, _, _)
TrimLoop(str, inQuote, lastChar) ==
  IF Len(str) = 0
  THEN [trimed |-> <<>>, inQuote |-> inQuote, lastChar |-> lastChar]
  ELSE IF Len(str) = 1
  THEN LET v == str[1]
           q == IF v = "\"" THEN ~inQuote ELSE inQuote
       IN  IF lastChar = " " /\ v = " " /\ ~q
           THEN [trimed |-> <<>>, inQuote |-> q, lastChar |-> lastChar]
           ELSE [trimed |-> <<v>>, inQuote |-> q, lastChar |-> v]
  ELSE LET a == TrimLoop(Left(str), inQuote, lastChar)
           b == TrimLoop(Right(str), a.inQuote, a.lastChar)
       IN  [trimed |-> a.trimed \o b.trimed, inQuote |-> b.inQuote,
            lastChar |-> b.lastChar]

trimString(str) == TrimLoop(Trim(str), FALSE, "").trimed

\* the test both CanonicalHeaders and SignedHeaders make of a stored key
Selected(key, signedHeaders) ==
  signedHeaders = {} \/ ToLower(key) \in signedHeaders

\* the test both make before they add the host of the request
AddsHost(r, signedHeaders) ==
  HeaderGet(r.Header, <<"h", "o", "s", "t">>) = <<>> \/ <<"h", "o", "s", "t">> \notin signedHeaders

TrimAll(values) == [i \in 1..Len(values) |-> trimString(values[i])]

\* CanonicalHeaders: the header map it leaves; sort.Strings(value) sorts the
\* slice the map holds
HeaderAfterCanonicalHeaders(r, signedHeaders) ==
  [k \in DOMAIN r.Header |->
     IF Selected(k, signedHeaders) THEN SortStrings(r.Header[k])
     ELSE r.Header[k]]

\* the lines of CanonicalHeaders before they are sorted; the host test reads
\* the header map after the loop has sorted the values
HeaderLines(r, signedHeaders) ==
  LET keys == SetToSeq({k \in DOMAIN r.Header : Selected(k, signedHeaders)})
      r1   == [r EXCEPT !.Header = HeaderAfterCanonicalHeaders(r, signedHeaders)]
  IN  [i \in 1..Len(keys) |->
         ToLower(keys[i]) \o <<":">>
           \o Join(TrimAll(SortStrings(r.Header[keys[i]])), <<",">>)]
      \o (IF AddsHost(r1, signedHeaders) THEN <<<<"h", "o", "s", "t", ":">> \o r.Host>> ELSE <<>>)

\* CanonicalHeaders: the string it returns
CanonicalHeaders(r, signedHeaders) ==
  Join(SortStrings(HeaderLines(r, signedHeaders)), <<"\n">>) \o <<"\n">>

\* the names of SignedHeaders before they are sorted
HeaderNames(r, signedHeaders) ==
  LET keys == SetToSeq({k \in DOMAIN r.Header : Selected(k, signedHeaders)})
  IN  [i \in 1..Len(keys) |-> ToLower(keys[i])]
      \o (IF AddsHost(r, signedHeaders) THEN <<<<"h", "o", "s", "t">>>> ELSE <<>>)

\* SignedHeaders
SignedHeaders(r, signedHeaders) ==
  Join(SortStrings(HeaderNames(r, signedHeaders)), <<";">>)

\* A body is [present, data, fails]: r.Body is not nil, the bytes a reader
\* still gets from it, and whether reading ends in an error instead of EOF.
NilBody == [present |-> FALSE, data |-> <<>>, fails |-> FALSE]

\* RequestPayload without line 134: the body is left read to its end
RequestPayloadDrained(r) ==
  IF ~r.Body.present
  THEN [b |-> <<>>, err |-> FALSE, body |-> r.Body]
  ELSE [b |-> r.Body.data, err |-> r.Body.fails,
        body |-> [present |-> TRUE, data |-> <<>>, fails |-> FALSE]]

\* RequestPayload: the bytes, the error, and the body it leaves on r
RequestPayload(r) ==
  IF ~r.Body.present
  THEN [b |-> <<>>, err |-> FALSE, body |-> r.Body]
  ELSE [b |-> r.Body.data, err |-> r.Body.fails,
        body |-> [present |-> TRUE, data |-> r.Body.data, fails |-> FALSE]]

\* CanonicalRequest, line 48: the string, built of the request r1 whose body
\* RequestPayload restored; r2 is that request after CanonicalHeaders has
\* sorted the values of its headers
CanonicalFormat(r1, r2, signedHeaders, b, hx) ==
  [str |-> r1.Method \o <<"\n">> \o CanonicalURI(r1) \o <<"\n">>
             \o CanonicalQueryString(r1) \o <<"\n">>
             \o CanonicalHeaders(r1, signedHeaders) \o <<"\n">>
             \o SignedHeaders(r2, signedHeaders) \o <<"\n">> \o hx.hex,
   err |-> hx.err, payload |-> b, r |-> r2]

\* CanonicalRequest, lines 44-47: p is what RequestPayload returned
CanonicalAfterPayload(r, signedHeaders, p) ==
  IF p.err
  THEN [str |-> <<>>, err |-> TRUE, payload |-> p.b,
        r |-> [r EXCEPT !.Body = p.body]]
  ELSE CanonicalFormat(
         [r EXCEPT !.Body = p.body],
         [r EXCEPT !.Body = p.body,
                   !.Header = HeaderAfterCanonicalHeaders(r, signedHeaders)],
         signedHeaders, p.b, HexEncodeSHA256Hash(p.b))

\* CanonicalRequest: the string, the error, the payload it hashed, and the
\* request it leaves
CanonicalRequest(r, signedHeaders) ==
  CanonicalAfterPayload(r, signedHeaders, RequestPayload(r))

\* ------------------------------------------------------------ signing
\* CredentialScope
CredentialScope(t, regionName, serviceName) ==
  FormatShort(t) \o <<"/">> \o regionName \o <<"/">> \o serviceName
    \o <<"/", "a", "w", "s", "4", "_", "r", "e", "q", "u", "e", "s", "t">>

AlgorithmId == <<"A", "W", "S", "4", "-", "H", "M", "A", "C", "-", "S", "H", "A", "2", "5", "6">>

\* StringToSign
StringToSign(canonicalRequest, credentialScope, t) ==
  AlgorithmId \o <<"\n">> \o FormatBasic(t) \o <<"\n">> \o credentialScope
    \o <<"\n">> \o Sha256Sum(canonicalRequest)

\* the loop of GenerateSigningKey over dateStamp, region, service, terminator
RECURSIVE KeyChain(_, _)
KeyChain(key, data) ==
  IF Len(data) = 0 THEN [key |-> key, err |-> FALSE]
  ELSE LET h == hmacsha256(key, data[1])
       IN  IF h.err THEN [key |-> <<>>, err |-> TRUE]
           ELSE KeyChain(h.sum, Tail(data))

\* GenerateSigningKey
GenerateSigningKey(secretKey, regionName, serviceName, t) ==
  KeyChain(<<"A", "W", "S", "4">> \o secretKey,
           <<FormatShort(t), regionName, serviceName, <<"a", "w", "s", "4", "_", "r", "e", "q", "u", "e", "s", "t">>>>)

\* SignStringToSign
SignStringToSign(stringToSign, signingKey) ==
  LET hm == hmacsha256(signingKey, stringToSign)
  IN  [hex |-> hm.sum, err |-> hm.err]

\* AuthHeaderValue
AuthHeaderValue(signature, accessKey, credentialScope, signedHeaders) ==
  AlgorithmId \o <<" ", "C", "r", "e", "d", "e", "n", "t", "i", "a", "l", "=">> \o accessKey \o <<"/">> \o credentialScope
    \o <<",", " ", "S", "i", "g", "n", "e", "d", "H", "e", "a", "d", "e", "r", "s", "=">> \o signedHeaders \o <<",", " ", "S", "i", "g", "n", "a", "t", "u", "r", "e", "=">> \o signature

\* SignRequest, lines 219-223: the date header it reads and what parsing
\* it gives
SelectDate(amz, date) ==
  IF amz # <<>> THEN [dt |-> amz, p |-> ParseBasic(amz)]
  ELSE IF date # <<>> THEN [dt |-> date, p |-> ParseRFC1123(date)]
  ELSE [dt |-> <<>>, p |-> [t |-> NoTime, err |-> FALSE]]

\* SignRequest with line 224 testing dt == "" only: a date that does not
\* parse is signed with as the zero time
ResolveSelectedStrict(r, now, sel) ==
  IF sel.dt = <<>>
  THEN [t |-> now, fallback |-> TRUE, unparsable |-> sel.p.err,
        header |-> HeaderSet(HeaderDel(r.Header, <<"d", "a", "t", "e">>),
                             <<"x", "-", "a", "m", "z", "-", "d", "a", "t", "e">>, FormatBasic(now))]
  ELSE [t |-> sel.p.t, fallback |-> FALSE, unparsable |-> sel.p.err,
        header |-> r.Header]

\* SignRequest, lines 224-228: the time it signs with and the header map it
\* leaves before the canonical request is built
ResolveSelected(r, now, sel) ==
  IF sel.p.err \/ sel.dt = <<>>
  THEN [t |-> now, fallback |-> TRUE, unparsable |-> sel.p.err,
        header |-> HeaderSet(HeaderDel(r.Header, <<"d", "a", "t", "e">>),
                             <<"x", "-", "a", "m", "z", "-", "d", "a", "t", "e">>, FormatBasic(now))]
  ELSE [t |-> sel.p.t, fallback |-> FALSE, unparsable |-> FALSE,
        header |-> r.Header]

\* SignRequest, lines 216-228
ResolveTime(r, now) ==
  ResolveSelected(r, now, SelectDate(HeaderGet(r.Header, <<"x", "-", "a", "m", "z", "-", "d", "a", "t", "e">>),
                                     HeaderGet(r.Header, <<"d", "a", "t", "e">>)))

\* SignRequest setting the Authorization header before it tests the error
SignFailedHalfWritten(rt, cr) ==
  [err |-> TRUE,
   r |-> [cr.r EXCEPT !.Header =
            HeaderSet(cr.r.Header, <<"A", "u", "t", "h", "o", "r", "i", "z", "a", "t", "i", "o", "n">>, <<>>)],
   t |-> rt.t, fallback |-> rt.fallback, unparsable |-> rt.unparsable,
   payload |-> cr.payload, hashed |-> TRUE, out |-> <<>>]

\* SignRequest when it returns an error: no header is written after the
\* canonical request was asked for
SignFailed(rt, cr) ==
  [err |-> TRUE, r |-> cr.r, t |-> rt.t, fallback |-> rt.fallback,
   unparsable |-> rt.unparsable, payload |-> cr.payload, hashed |-> TRUE,
   out |-> <<>>]

\* SignRequest, lines 245-246
SignDone(rt, cr, authValue) ==
  [err |-> FALSE,
   r |-> [cr.r EXCEPT !.Header =
            HeaderSet(cr.r.Header, <<"A", "u", "t", "h", "o", "r", "i", "z", "a", "t", "i", "o", "n">>, authValue)],
   t |-> rt.t, fallback |-> rt.fallback, unparsable |-> rt.unparsable,
   payload |-> cr.payload, hashed |-> TRUE, out |-> authValue]

\* SignRequest, lines 240-244
SignSigned(s, signedHeaders, rt, cr, credentialScope, sg) ==
  IF sg.err THEN SignFailed(rt, cr)
  ELSE SignDone(rt, cr,
         AuthHeaderValue(sg.hex, s.AccessKey, credentialScope,
                         SignedHeaders(cr.r, signedHeaders)))

\* SignRequest, lines 234-239
SignScoped(s, signedHeaders, rt, cr, credentialScope, key) ==
  IF key.err THEN SignFailed(rt, cr)
  ELSE SignSigned(s, signedHeaders, rt, cr, credentialScope,
         SignStringToSign(StringToSign(cr.str, credentialScope, rt.t),
                          key.key))

\* SignRequest, lines 230-235
SignCanonical(s, signedHeaders, rt, cr) ==
  IF cr.err THEN SignFailed(rt, cr)
  ELSE SignScoped(s, signedHeaders, rt, cr,
         CredentialScope(rt.t, s.Region, s.Service),
         GenerateSigningKey(s.SecretKey, s.Region, s.Service, rt.t))

\* SignRequest, line 229
SignResolved(s, r, signedHeaders, rt) ==
  SignCanonical(s, signedHeaders, rt,
    CanonicalRequest([r EXCEPT !.Header = rt.header], signedHeaders))

\* SignRequest: the error, the request it leaves, the time it signed with,
\* the payload it hashed and the value it computed
SignRequest(s, r, signedHeaders, now) ==
  SignResolved(s, r, signedHeaders, ResolveTime(r, now))

\* GetStringToSign, lines 259-265
StringToSignOf(s, p, cr) ==
  IF cr.err
  THEN [err |-> TRUE, r |-> cr.r, t |-> p.t, fallback |-> FALSE,
        unparsable |-> FALSE, payload |-> cr.payload, hashed |-> TRUE,
        out |-> <<>>]
  ELSE [err |-> FALSE, r |-> cr.r, t |-> p.t, fallback |-> FALSE,
        unparsable |-> FALSE, payload |-> cr.payload, hashed |-> TRUE,
        out |-> StringToSign(cr.str,
                             CredentialScope(p.t, s.Region, s.Service), p.t)]

\* GetStringToSign, lines 253-258
GetStringToSignDated(s, r, signedHeaders, sel) ==
  IF sel.p.err \/ sel.dt = <<>>
  THEN [err |-> TRUE, r |-> r, t |-> NoTime, fallback |-> FALSE,
        unparsable |-> sel.p.err, payload |-> <<>>, hashed |-> FALSE,
        out |-> <<>>]
  ELSE StringToSignOf(s, sel.p, CanonicalRequest(r, signedHeaders))

\* GetStringToSign
GetStringToSign(s, r, signedHeaders) ==
  GetStringToSignDated(s, r, signedHeaders,
    SelectDate(HeaderGet(r.Header, <<"x", "-", "a", "m", "z", "-", "d", "a", "t", "e">>), <<>>))

\* ------------------------------------------------------------ parsing
\* a nil *Signature
NilSignature ==
  [nil |-> TRUE, AccessKey |-> <<>>, SecretKey |-> <<>>, Region |-> <<>>,
   Service |-> <<>>]

\* getCredential taking the region and the service one part early
CredentialOfShifted(parts) ==
  IF Len(parts) # 5 \/ parts[5] # <<"a", "w", "s", "4", "_", "r", "e", "q", "u", "e", "s", "t">>
  THEN [ss |-> NilSignature, err |-> TRUE]
  ELSE [ss |-> [nil |-> FALSE, AccessKey |-> parts[1], SecretKey |-> <<>>,
                Region |-> parts[2], Service |-> parts[3]],
        err |-> FALSE]

\* getCredential, lines 171-181: parts is what lies between the slashes
CredentialOf(parts) ==
  IF Len(parts) # 5 \/ parts[5] # <<"a", "w", "s", "4", "_", "r", "e", "q", "u", "e", "s", "t">>
  THEN [ss |-> NilSignature, err |-> TRUE]
  ELSE [ss |-> [nil |-> FALSE, AccessKey |-> parts[1], SecretKey |-> <<>>,
                Region |-> parts[3], Service |-> parts[4]],
        err |-> FALSE]

\* getCredential
getCredential(str) ==
  IF ~HasPrefix(str, <<"C", "r", "e", "d", "e", "n", "t", "i", "a", "l", "=">>)
  THEN [ss |-> NilSignature, err |-> TRUE]
  ELSE CredentialOf(Split(From(str, 11), "/"))

\* getSignedHeaders: the map is the set of its keys (every value is true)
getSignedHeaders(str) ==
  IF ~HasPrefix(str, <<"S", "i", "g", "n", "e", "d", "H", "e", "a", "d", "e", "r", "s", "=">>)
  THEN [signedHeaders |-> {}, err |-> TRUE]
  ELSE [signedHeaders |-> Range(Split(From(str, 14), ";")), err |-> FALSE]

\* the tokens GetSignatureFromString collects from one item, lines 141-147
RECURSIVE NonEmptyTrimmed(_)
NonEmptyTrimmed(values) ==
  IF Len(values) = 0 THEN <<>>
  ELSE (IF Len(Trim(values[1])) = 0 THEN <<>> ELSE <<Trim(values[1])>>)
         \o NonEmptyTrimmed(Tail(values))

\* the tokens it collects from all the items, lines 138-148
RECURSIVE Tokens(_)
Tokens(items) ==
  IF Len(items) = 0 THEN <<>>
  ELSE NonEmptyTrimmed(Split(items[1], ",")) \o Tokens(Tail(items))

\* what a call of GetSignatureFromString ends with: the four results, or a
\* run-time panic (a slice bound out of range)
ParseError(msg, signedHeaders) ==
  [outcome |-> "error", msg |-> msg, ss |-> NilSignature, raw |-> <<>>,
   signedHeaders |-> signedHeaders]

\* GetSignatureFromString, lines 156-163
ParseSignedHeaders(authHeader, pattens, cred, sh) ==
  IF sh.err
  THEN ParseError("get authorization header signedHeaders failed",
                  sh.signedHeaders)
  ELSE IF Len(pattens[4]) < 9
  THEN [outcome |-> "panic", msg |-> "slice bounds out of range",
        ss |-> NilSignature, raw |-> <<>>, signedHeaders |-> {}]
  ELSE IF SubSeq(pattens[4], 1, 9) # <<"S", "i", "g", "n", "a", "t", "u", "r", "e">>
  THEN ParseError("no signature", sh.signedHeaders)
  ELSE [outcome |-> "ok", msg |-> "", ss |-> cred.ss, raw |-> authHeader,
        signedHeaders |-> sh.signedHeaders]

\* GetSignatureFromString, lines 152-156
ParseCredential(authHeader, pattens, cred) ==
  IF cred.err
  THEN ParseError("get authorization header signature failed", {})
  ELSE ParseSignedHeaders(authHeader, pattens, cred,
                          getSignedHeaders(pattens[3]))

\* GetSignatureFromString, lines 149-152
ParsePattens(authHeader, pattens) ==
  IF Len(pattens) # 4
  THEN ParseError("wrong authorization header size", {})
  ELSE ParseCredential(authHeader, pattens, getCredential(pattens[2]))

\* GetSignatureFromString (the definition of lines 130-164)
GetSignatureFromString(authHeader) ==
  IF Len(authHeader) < 16
  THEN ParseError("get authorization header failed", {})
  ELSE IF SubSeq(authHeader, 1, 16) # AlgorithmId
  THEN ParseError("get aws4-hmac-sha256 failed", {})
  ELSE ParsePattens(authHeader, Tokens(Split(authHeader, " ")))

\* GetSignature
GetSignature(r) == GetSignatureFromString(HeaderGet(r.Header, <<"A", "u", "t", "h", "o", "r", "i", "z", "a", "t", "i", "o", "n">>))

\* ------------------------------------------------------- state machine
\* s      the credential (a Signature value) the caller signs with
\* r      the *http.Request the calls work on
\* ret    what the last call was given and what it returned
\* flow   where the request stands in the sequence sign, parse, remove the
\*        Authorization header, sign again (TestVerify): the Authorization
\*        value of the first signing and the set parsed from it
\* body0  the bytes the body held before the first call that hashed it
\* adds, calls   the Header.Add calls and the package calls made so far
VARIABLES s, r, ret, flow, body0, adds, calls

vars == <<s, r, ret, flow, body0, adds, calls>>

NoHeader == [k \in {} |-> <<>>]

\* The credentials and requests the calls are made with, <<credential,
\* request>>: GET http://h.com/%20/foo without a body, POST
\* http://h.com/a/../b?k=v+1&k= with the body a=b, and the same POST with a
\* body whose read fails.
Fixtures ==
  {<<[nil |-> FALSE, AccessKey |-> <<"A", "K">>, SecretKey |-> <<"w", "J", "/", "K", "+", "Y">>,
      Region |-> <<"u", "s", "-", "1">>, Service |-> <<"h", "o", "s", "t">>],
     [Method |-> <<"G", "E", "T">>, Path |-> <<"/", " ", "/", "f", "o", "o">>, Query |-> NoHeader,
      Host |-> <<"h", ".", "c", "o", "m">>, Header |-> NoHeader, Body |-> NilBody]>>,
   <<[nil |-> FALSE, AccessKey |-> <<"o", "p", "s">>, SecretKey |-> <<"k", "2">>,
      Region |-> <<"h", "z">>, Service |-> <<"d", "n", "s">>],
     [Method |-> <<"P", "O", "S", "T">>, Path |-> <<"/", "a", "/", ".", ".", "/", "b">>,
      Query |-> [k \in {<<"k">>} |-> <<<<"v", " ", "1">>, <<>>>>],
      Host |-> <<"h", ".", "c", "o", "m">>, Header |-> NoHeader,
      Body |-> [present |-> TRUE, data |-> <<"a", "=", "b">>, fails |-> FALSE]]>>,
   <<[nil |-> FALSE, AccessKey |-> <<"A", "K">>, SecretKey |-> <<"w", "J", "/", "K", "+", "Y">>,
      Region |-> <<"u", "s", "-", "1">>, Service |-> <<"h", "o", "s", "t">>],
     [Method |-> <<"P", "O", "S", "T">>, Path |-> <<"/", "a", "/", ".", ".", "/", "b">>,
      Query |-> [k \in {<<"k">>} |-> <<<<"v", " ", "1">>, <<>>>>],
      Host |-> <<"h", ".", "c", "o", "m">>, Header |-> NoHeader,
      Body |-> [present |-> TRUE, data |-> <<"a", "=", "b">>, fails |-> TRUE]]>>}

\* the headers the caller adds: <<name, value>>
AddChoices ==
  {<<<<"d", "a", "t", "e">>, <<"M", "o", "n", ",", " ", "0", "9", " ", "S", "e", "p", " ", "2", "0", "1", "1", " ", "2", "3", ":", "3", "6", ":", "0", "0", " ", "G", "M", "T">>>>,
   <<<<"d", "a", "t", "e">>, <<"y", "e", "s", "t", "e", "r", "d", "a", "y">>>>,
   <<<<"x", "-", "a", "m", "z", "-", "d", "a", "t", "e">>, <<"2", "0", "1", "1", "0", "9", "0", "9", "T", "2", "3", "3", "6", "0", "0", "Z">>>>,
   <<<<"x", "-", "a", "m", "z", "-", "d", "a", "t", "e">>, <<"2", "0", "1", "1", "0", "9", "0", "8", "T", "2", "3", "3", "6", "3", "0", "Z">>>>,
   <<<<"x", "-", "a", "m", "z", "-", "d", "a", "t", "e">>, <<"2", "0", "1", "1", "-", "0", "9", "-", "0", "9">>>>,
   <<<<"h", "o", "s", "t">>, <<"h", ".", "c", "o", "m">>>>,
   <<<<"a", "u", "t", "h", "o", "r", "i", "z", "a", "t", "i", "o", "n">>, <<"o", "l", "d">>>>,
   <<<<"x", "-", "d", "a", "t", "a">>, <<"v">>>>}

\* the headers the caller deletes
DelChoices == {<<"a", "u", "t", "h", "o", "r", "i", "z", "a", "t", "i", "o", "n">>, <<"x", "-", "d", "a", "t", "a">>}

\* the values time.Now returns
NowTimes ==
  {[day |-> 11, sec |-> 5, nsec |-> 300], [day |-> 12, sec |-> 7, nsec |-> 0]}

\* the signed-header sets the caller signs with, besides the set parsed last
SignSets == {{}, {<<"d", "a", "t", "e">>, <<"h", "o", "s", "t">>}}

\* the signed-header sets the caller asks the canonical request of
CanonSets ==
  {{}, {<<"d", "a", "t", "e">>, <<"h", "o", "s", "t">>}, {<<"c", "o", "n", "t", "e", "n", "t", "-", "t", "y", "p", "e">>, <<"h", "o", "s", "t">>},
   {<<"C", "o", "n", "t", "e", "n", "t", "-", "T", "y", "p", "e">>, <<"h", "o", "s", "t">>}, {<<"d", "a", "t", "e">>}}

NoParse ==
  [outcome |-> "none", msg |-> "", ss |-> NilSignature, raw |-> <<>>,
   signedHeaders |-> {}]

NoFlow == [stage |-> "none", auth |-> <<>>, ah |-> {}]

NoBody0 == [valid |-> FALSE, data |-> <<>>, ok |-> FALSE]

NoArgs ==
  [accessKey |-> <<>>, region |-> <<>>, service |-> <<>>, t |-> NoTime,
   names |-> <<>>, signature |-> <<>>]

\* ret after a step of the caller that is no call of the package
Idle(op) ==
  [op |-> op, err |-> FALSE, sh |-> {}, before |-> r, now |-> NoTime,
   t |-> NoTime, fallback |-> FALSE, unparsable |-> FALSE, payload |-> <<>>,
   hashed |-> FALSE, out |-> <<>>, parse |-> NoParse, repeat |-> FALSE,
   input |-> <<>>, args |-> NoArgs]

NoRequest ==
  [Method |-> <<>>, Path |-> <<>>, Query |-> NoHeader, Host |-> <<>>,
   Header |-> NoHeader, Body |-> NilBody]

Init ==
  /\ \E f \in Fixtures : s = f[1] /\ r = f[2]
  /\ ret = [Idle("new") EXCEPT !.before = NoRequest]
  /\ flow = NoFlow
  /\ body0 = NoBody0
  /\ adds = 0
  /\ calls = 0

\* the bytes the body holds before the first call that hashes it
Body0After(hashed) ==
  IF hashed /\ ~body0.valid
  THEN [valid |-> TRUE, data |-> r.Body.data, ok |-> ~r.Body.fails]
  ELSE body0

\* the caller adds a header: r.Header.Add(name, value)
AddHeader ==
  /\ adds < MaxAdds
  /\ \E c \in AddChoices :
       /\ r' = [r EXCEPT !.Header = HeaderAdd(r.Header, c[1], c[2])]
       /\ flow' = IF flow.stage \in {"signed", "parsed", "removed"}
                     /\ ToLower(c[1]) \notin flow.ah
                  THEN flow ELSE NoFlow
  /\ adds' = adds + 1
  /\ ret' = Idle("Add")
  /\ UNCHANGED <<s, body0, calls>>

\* the caller deletes a header: r.Header.Del(name)
DelHeader ==
  /\ \E name \in DelChoices :
       /\ CanonicalMIMEHeaderKey(name) \in DOMAIN r.Header
       /\ r' = [r EXCEPT !.Header = HeaderDel(r.Header, name)]
       /\ flow' = IF name = <<"a", "u", "t", "h", "o", "r", "i", "z", "a", "t", "i", "o", "n">> /\ flow.stage = "parsed"
                  THEN [flow EXCEPT !.stage = "removed"]
                  ELSE IF flow.stage \in {"signed", "parsed", "removed"}
                          /\ name # <<"a", "u", "t", "h", "o", "r", "i", "z", "a", "t", "i", "o", "n">>
                          /\ ToLower(name) \notin flow.ah
                  THEN flow ELSE NoFlow
  /\ ret' = Idle("Del")
  /\ UNCHANGED <<s, body0, adds, calls>>

\* the caller reads the body to its end: ioutil.ReadAll(r.Body)
ReadBody ==
  /\ r.Body.present
  /\ r.Body.data # <<>>
  /\ r' = [r EXCEPT !.Body.data = <<>>]
  /\ ret' = [Idle("ReadBody") EXCEPT !.payload = r.Body.data,
                                     !.err = r.Body.fails]
  /\ body0' = NoBody0
  /\ flow' = NoFlow
  /\ UNCHANGED <<s, adds, calls>>

\* ret after a call that returned res (a record of SignRequest's shape)
Returned(op, signedHeaders, now, res) ==
  [op |-> op, err |-> res.err, sh |-> signedHeaders, before |-> r,
   now |-> now, t |-> res.t, fallback |-> res.fallback,
   unparsable |-> res.unparsable, payload |-> res.payload,
   hashed |-> res.hashed, out |-> res.out, parse |-> NoParse,
   repeat |-> ret.op = "SignRequest" /\ ~ret.err /\ ret.sh = signedHeaders,
   input |-> <<>>, args |-> NoArgs]

\* SignRequest reads the clock only when it finds no date it can parse
Clock == IF ResolveTime(r, NoTime).fallback THEN NowTimes ELSE {NoTime}

\* s.SignRequest(r, signedHeaders)
CallSignRequest ==
  /\ calls < MaxCalls
  /\ \E signedHeaders \in SignSets \cup {flow.ah}, now \in Clock :
       \E res \in {SignRequest(s, r, signedHeaders, now)} :
           /\ r' = res.r
           /\ ret' = Returned("SignRequest", signedHeaders, now, res)
           /\ flow' =
                IF res.err THEN NoFlow
                ELSE IF flow.stage = "removed" /\ signedHeaders = flow.ah
                THEN [flow EXCEPT !.stage = "resigned"]
                ELSE IF signedHeaders = {}
                THEN [stage |-> "signed", auth |-> res.out,
                      ah |-> GetSignatureFromString(res.out).signedHeaders]
                ELSE NoFlow
  /\ body0' = Body0After(TRUE)
  /\ calls' = calls + 1
  /\ UNCHANGED <<s, adds>>

\* GetSignature(r)
CallGetSignature ==
  /\ calls < MaxCalls
  /\ ret' = [Idle("GetSignature") EXCEPT !.parse = GetSignature(r),
               !.input = HeaderGet(r.Header, <<"A", "u", "t", "h", "o", "r", "i", "z", "a", "t", "i", "o", "n">>)]
  /\ flow' = IF flow.stage \in {"signed", "parsed"}
             THEN [flow EXCEPT !.stage = "parsed"] ELSE flow
  /\ calls' = calls + 1
  /\ UNCHANGED <<s, r, body0, adds>>

\* RequestPayload(r)
CallRequestPayload ==
  /\ calls < MaxCalls
  /\ \E p \in {RequestPayload(r)} :
         /\ r' = [r EXCEPT !.Body = p.body]
         /\ ret' = [Idle("RequestPayload") EXCEPT !.err = p.err,
                      !.payload = p.b, !.hashed = TRUE]
  /\ body0' = Body0After(TRUE)
  /\ flow' = NoFlow
  /\ calls' = calls + 1
  /\ UNCHANGED <<s, adds>>

\* CanonicalRequest(r, signedHeaders)
CallCanonicalRequest ==
  /\ calls < MaxCalls
  /\ \E signedHeaders \in CanonSets :
       \E cr \in {CanonicalRequest(r, signedHeaders)} :
           /\ r' = cr.r
           /\ ret' = [Idle("CanonicalRequest") EXCEPT !.err = cr.err,
                        !.sh = signedHeaders, !.payload = cr.payload,
                        !.hashed = TRUE, !.out = cr.str]
  /\ body0' = Body0After(TRUE)
  /\ flow' = NoFlow
  /\ calls' = calls + 1
  /\ UNCHANGED <<s, adds>>

\* s.GetStringToSign(r, signedHeaders)
CallGetStringToSign ==
  /\ calls < MaxCalls
  /\ \E res \in {GetStringToSign(s, r, {})} :
         /\ r' = res.r
         /\ ret' = Returned("GetStringToSign", {}, NoTime, res)
         /\ body0' = Body0After(res.hashed)
  /\ flow' = NoFlow
  /\ calls' = calls + 1
  /\ UNCHANGED <<s, adds>>

\* the Authorization values GetSignatureFromString is called with
Separators == {<<",", " ">>, <<",">>, <<" ">>}

ParseInputs ==
  {Join(<<p, c, h, g>>, sep) :
     p \in {AlgorithmId, <<"A", "W", "S", "4", "-", "H", "M", "A", "C", "-", "S", "H", "A", "5", "1", "2">>},
     c \in {<<"C", "r", "e", "d", "e", "n", "t", "i", "a", "l", "=", "A", "K", "/", "2", "0", "1", "1", "0", "9", "0", "9", "/", "u", "s", "-", "1", "/", "h", "o", "s", "t", "/", "a", "w", "s", "4", "_", "r", "e", "q", "u", "e", "s", "t">>,
            <<"C", "r", "e", "d", "e", "n", "t", "i", "a", "l", "=", "A", "K", "/", "2", "0", "1", "1", "0", "9", "0", "9", "/", "u", "s", "-", "1", "/", "h", "o", "s", "t", "/", "a", "w", "s", "4">>,
            <<"C", "r", "e", "d", "e", "n", "t", "i", "a", "l", "=", "A", "K", "/", "2", "0", "1", "1", "0", "9", "0", "9", "/", "u", "s", "-", "1", "/", "a", "w", "s", "4", "_", "r", "e", "q", "u", "e", "s", "t">>,
            <<"C", "r", "e", "d", "=", "A", "K", "/", "2", "0", "1", "1", "0", "9", "0", "9", "/", "u", "s", "-", "1", "/", "h", "o", "s", "t", "/", "a", "w", "s", "4", "_", "r", "e", "q", "u", "e", "s", "t">>},
     h \in {<<"S", "i", "g", "n", "e", "d", "H", "e", "a", "d", "e", "r", "s", "=", "d", "a", "t", "e", ";", "h", "o", "s", "t">>, <<"S", "i", "g", "n", "e", "d", "=", "d", "a", "t", "e", ";", "h", "o", "s", "t">>},
     g \in {<<"S", "i", "g", "n", "a", "t", "u", "r", "e", "=", "0", "a", "1", "f">>, <<"S", "i", "g", "n", "a", "t", "u", "r", "e">>, <<"S", "i", "g", "n", "a", "t", "u", "r">>, <<"S", "i", "g">>,
            <<"X", "S", "i", "g", "n", "a", "t", "u", "r", "e", "=", "0", "a", "1", "f">>, <<"s", "i", "g", "n", "a", "t", "u", "r", "e", "=", "0", "a", "1", "f">>},
     sep \in Separators}
  \cup {<<>>, <<"A", "W", "S", "4", "-", "H", "M", "A", "C">>,
        <<"A", "W", "S", "4", "-", "H", "M", "A", "C", "-", "S", "H", "A", "2", "5", "6", " ", "C", "r", "e", "d", "e", "n", "t", "i", "a", "l", "=", "A", "K", "/", "2", "0", "1", "1", "0", "9", "0", "9", "/", "u", "s", "-", "1", "/", "h", "o", "s", "t", "/", "a", "w", "s", "4", "_", "r", "e", "q", "u", "e", "s", "t", ",", " ", "S", "i", "g", "n", "e", "d", "H", "e", "a", "d", "e", "r", "s", "=", "h", "o", "s", "t">>,
        <<"A", "W", "S", "4", "-", "H", "M", "A", "C", "-", "S", "H", "A", "2", "5", "6", " ", "C", "r", "e", "d", "e", "n", "t", "i", "a", "l", "=", "A", "K", "/", "2", "0", "1", "1", "0", "9", "0", "9", "/", "u", "s", "-", "1", "/", "h", "o", "s", "t", "/", "a", "w", "s", "4", "_", "r", "e", "q", "u", "e", "s", "t", ",", " ", "S", "i", "g", "n", "e", "d", "H", "e", "a", "d", "e", "r", "s", "=", "h", "o", "s", "t", ",", " ", "S", "i", "g", "n", "a", "t", "u", "r", "e", "=", "0", "a", "1", "f", ",", " ", "x">>}

\* GetSignatureFromString(authHeader)
CallGetSignatureFromString ==
  /\ ret.op = "new"
  /\ \E authHeader \in ParseInputs :
       ret' = [Idle("GetSignatureFromString") EXCEPT
                 !.parse = GetSignatureFromString(authHeader),
                 !.input = authHeader]
  /\ UNCHANGED <<s, r, flow, body0, adds, calls>>

\* the arguments AuthHeaderValue and CredentialScope are called with
FieldValues == {<<"A", "K">>, <<>>, <<"u", "s", "-", "1">>, <<"A", "/", "K">>, <<"A", " ", "K">>, <<"A", ",", "K">>}

NameLists ==
  {<<>>, <<<<"h", "o", "s", "t">>>>, <<<<"d", "a", "t", "e">>, <<"h", "o", "s", "t">>>>, <<<<"h", "o", "s", "t">>, <<"d", "a", "t", "e">>>>,
   <<<<"C", "o", "n", "t", "e", "n", "t", "-", "T", "y", "p", "e">>, <<"h", "o", "s", "t">>, <<"h", "o", "s", "t">>>>, <<<<"a", ";", "b">>>>, <<<<"x", " ", "y">>, <<"h", "o", "s", "t">>>>,
   <<<<"x", ",", "y">>>>, <<<<>>>>}

Times == {[day |-> 9, sec |-> 0, nsec |-> 0], [day |-> 30, sec |-> 59, nsec |-> 7]}

\* GetSignatureFromString(AuthHeaderValue(signature, accessKey,
\*   CredentialScope(t, region, service), the names joined by ";"))
RoundTrip ==
  /\ ret.op = "new"
  /\ \E accessKey \in FieldValues, region \in {<<"u", "s", "-", "1">>, <<"u", " ", "s">>},
        service \in {<<"h", "o", "s", "t">>, <<"a", "/", "b">>}, t \in Times, names \in NameLists :
       \E value \in {AuthHeaderValue(<<"0", "a", "1", "f">>, accessKey,
                                      CredentialScope(t, region, service),
                                      Join(names, <<";">>))} :
           ret' = [Idle("RoundTrip") EXCEPT
                     !.parse = GetSignatureFromString(value),
                     !.input = value,
                     !.args = [accessKey |-> accessKey, region |-> region,
                               service |-> service, t |-> t, names |-> names,
                               signature |-> <<"0", "a", "1", "f">>]]
  /\ UNCHANGED <<s, r, flow, body0, adds, calls>>

\* Signing: the caller builds a request, signs it, reads the Authorization
\* header back and signs again.
Next ==
  \/ AddHeader
  \/ DelHeader
  \/ CallSignRequest
  \/ CallGetSignature

Spec == Init /\ [][Next]_vars

\* Canonical form: requests that carry headers, and the calls that read the
\* body and build the canonical request.
InitialHeaders ==
  {NoHeader,
   [k \in {<<"D", "a", "t", "e">>, <<"C", "o", "n", "t", "e", "n", "t", "-", "T", "y", "p", "e">>} |->
      IF k = <<"D", "a", "t", "e">> THEN <<<<"M", "o", "n", ",", " ", "0", "9", " ", "S", "e", "p", " ", "2", "0", "1", "1", " ", "2", "3", ":", "3", "6", ":", "0", "0", " ", "G", "M", "T">>>>
      ELSE <<<<"a", " ", " ", "b", ";", " ", "c", "=", "\"", "d", " ", " ", "e", "\"">>, <<"a">>>>],
   [k \in {<<"X", "-", "A", "m", "z", "-", "D", "a", "t", "e">>, <<"H", "o", "s", "t">>, <<"C", "o", "n", "t", "e", "n", "t", "-", "T", "y", "p", "e">>} |->
      IF k = <<"X", "-", "A", "m", "z", "-", "D", "a", "t", "e">> THEN <<<<"2", "0", "1", "1", "0", "9", "0", "9", "T", "2", "3", "3", "6", "0", "0", "Z">>>>
      ELSE IF k = <<"H", "o", "s", "t">> THEN <<<<"h", ".", "c", "o", "m">>>>
      ELSE <<<<"x">>>>],
   [k \in {<<"X", "-", "D", "a", "t", "a">>, <<"X", "-", "D", "a", "t", "a", "-", "I", "d">>} |-> <<<<"v">>>>]}

InitCanon ==
  /\ \E f \in Fixtures, h \in InitialHeaders :
       s = f[1] /\ r = [f[2] EXCEPT !.Header = h]
  /\ ret = [Idle("new") EXCEPT !.before = NoRequest]
  /\ flow = NoFlow
  /\ body0 = NoBody0
  /\ adds = 0
  /\ calls = 0

NextCanon ==
  \/ CallRequestPayload
  \/ CallCanonicalRequest
  \/ CallGetStringToSign
  \/ CallSignRequest
  \/ ReadBody

SpecCanon == InitCanon /\ [][NextCanon]_vars

\* Parsing: GetSignatureFromString on Authorization values, well formed
\* and not.
InitParse ==
  /\ \E f \in Fixtures : s = f[1] /\ r = f[2] /\ ~f[2].Body.present
  /\ ret = [Idle("new") EXCEPT !.before = NoRequest]
  /\ flow = NoFlow
  /\ body0 = NoBody0
  /\ adds = 0
  /\ calls = 0

NextParse ==
  \/ CallGetSignatureFromString
  \/ RoundTrip

SpecParse == InitParse /\ [][NextParse]_vars


\* ------------------------------------------------------------- properties
\* the values a header map holds under a name, and whether it holds any
Entry(h, name) ==
  IF CanonicalMIMEHeaderKey(name) \in DOMAIN h
  THEN [present |-> TRUE, values |-> h[CanonicalMIMEHeaderKey(name)]]
  ELSE [present |-> FALSE, values |-> <<>>]

\* C1: when SignRequest has just succeeded on the request that a successful
\* SignRequest with the same credential and the same signed-header set left
\* (the step before), the Authorization value it computes and sets is the
\* value the request already carried.
C1_SignRequestIdempotent ==
  (ret.op = "SignRequest" /\ ~ret.err /\ ret.repeat)
    => /\ ret.out = HeaderGet(ret.before.Header, <<"A", "u", "t", "h", "o", "r", "i", "z", "a", "t", "i", "o", "n">>)
       /\ HeaderGet(r.Header, <<"A", "u", "t", "h", "o", "r", "i", "z", "a", "t", "i", "o", "n">>)
            = HeaderGet(ret.before.Header, <<"A", "u", "t", "h", "o", "r", "i", "z", "a", "t", "i", "o", "n">>)

\* C2: GetSignature on a request signed with the empty set returns no
\* error, the credential's access key, region and service, and the
\* Authorization value as the raw string; and once the Authorization header
\* was removed, SignRequest with the set GetSignature returned sets the
\* Authorization value of the first signing again, whatever headers outside
\* that set were added in between.
C2_SignParseResign ==
  /\ (ret.op = "GetSignature" /\ flow.stage = "parsed")
       => /\ ret.parse.outcome = "ok"
          /\ ret.parse.ss.AccessKey = s.AccessKey
          /\ ret.parse.ss.Region = s.Region
          /\ ret.parse.ss.Service = s.Service
          /\ ret.parse.raw = flow.auth
          /\ ret.parse.raw = HeaderGet(r.Header, <<"A", "u", "t", "h", "o", "r", "i", "z", "a", "t", "i", "o", "n">>)
  /\ flow.stage = "resigned"
       => HeaderGet(r.Header, <<"A", "u", "t", "h", "o", "r", "i", "z", "a", "t", "i", "o", "n">>) = flow.auth

\* what C3 says GetSignatureFromString returns for the value built of args
RecoversArgs ==
  /\ ret.parse.outcome = "ok"
  /\ ret.parse.ss.AccessKey = ret.args.accessKey
  /\ ret.parse.ss.Region = ret.args.region
  /\ ret.parse.ss.Service = ret.args.service
  /\ ret.parse.signedHeaders = Range(ret.args.names)

\* a string that holds none of the characters of seps
FreeOf(str, seps) == \A i \in 1..Len(str) : str[i] \notin seps

\* the arguments that hold none of the characters the Authorization value is
\* split at, with at least one header name
DelimiterFree(args) ==
  /\ \A f \in {args.accessKey, args.region, args.service} :
       FreeOf(f, {"/", " ", ","})
  /\ Len(args.names) > 0
  /\ \A i \in 1..Len(args.names) : FreeOf(args.names[i], {";", " ", ","})

\* C3 as stated: for every access key, region, service, timestamp and list
\* of header names, GetSignatureFromString accepts the value AuthHeaderValue
\* builds and returns the same access key, region, service and the set of
\* the names.
C3_RoundTripAnyArgs == ret.op = "RoundTrip" => RecoversArgs

\* C3 as amended: the same, for an access key, a region and a service free
\* of "/", " " and ",", and a list of at least one name, each free of ";",
\* " " and ",".
C3_RoundTripDelimiterFree ==
  (ret.op = "RoundTrip" /\ DelimiterFree(ret.args)) => RecoversArgs

\* a round trip of a list that names a header twice and out of order
C3_Witness ==
  /\ ret.op = "RoundTrip"
  /\ DelimiterFree(ret.args)
  /\ ret.args.names = <<<<"C", "o", "n", "t", "e", "n", "t", "-", "T", "y", "p", "e">>, <<"h", "o", "s", "t">>, <<"h", "o", "s", "t">>>>
  /\ ret.args.accessKey = <<>>
  /\ ret.parse.signedHeaders = {<<"h", "o", "s", "t">>, <<"C", "o", "n", "t", "e", "n", "t", "-", "T", "y", "p", "e">>}

\* the tokens of the value the parser was last called with
InputTokens == Tokens(Split(ret.input, " "))

\* C4: called with a value that starts with the algorithm identifier, has
\* exactly four tokens, a valid Credential= token and a valid SignedHeaders=
\* token, GetSignatureFromString succeeds when the fourth token starts with
\* "Signature" and returns an error otherwise; it never panics.
C4_ParserAlwaysAnswers ==
  (/\ ret.op \in {"GetSignatureFromString", "RoundTrip"}
   /\ HasPrefix(ret.input, AlgorithmId)
   /\ Len(InputTokens) = 4
   /\ ~getCredential(InputTokens[2]).err
   /\ ~getSignedHeaders(InputTokens[3]).err)
    => /\ ret.parse.outcome # "panic"
       /\ ret.parse.outcome = "ok"
            <=> HasPrefix(InputTokens[4], <<"S", "i", "g", "n", "a", "t", "u", "r", "e">>)

\* C5: when GetSignatureFromString returns an error, the credential it
\* returns is nil, the raw string is empty and the signed-header set has no
\* member.
C5_NoPartialResult ==
  (ret.op \in {"GetSignatureFromString", "RoundTrip"}
   /\ ret.parse.outcome = "error")
    => /\ ret.parse.ss = NilSignature
       /\ ret.parse.raw = <<>>
       /\ ret.parse.signedHeaders = {}

\* C6: after any sequence of RequestPayload, CanonicalRequest, SignRequest
\* and GetStringToSign calls on a request whose body reads without error,
\* the body holds the bytes it held before the first of them and each call
\* that hashed the body hashed those bytes; a request without a body is
\* hashed as the empty byte sequence, without error.
C6_BodySurvivesHashing ==
  /\ (body0.valid /\ body0.ok)
       => /\ r.Body.data = body0.data
          /\ ~r.Body.fails
          /\ ret.hashed => (ret.payload = body0.data /\ ~ret.err)
  /\ (ret.hashed /\ ~ret.before.Body.present)
       => (ret.payload = <<>> /\ ~ret.err /\ ~r.Body.present)

\* the third call in a row on a request with the body a=b
C6_Witness ==
  /\ calls = MaxCalls
  /\ ret.op = "SignRequest"
  /\ ret.hashed
  /\ body0.valid /\ body0.ok
  /\ body0.data = <<"a", "=", "b">>
  /\ r.Body.data = <<"a", "=", "b">>
  /\ ret.payload = <<"a", "=", "b">>

\* the date header SignRequest selects on req is there and does not parse
SelectedUnparsable(req) ==
  IF HeaderGet(req.Header, <<"x", "-", "a", "m", "z", "-", "d", "a", "t", "e">>) # <<>>
  THEN ParseBasic(HeaderGet(req.Header, <<"x", "-", "a", "m", "z", "-", "d", "a", "t", "e">>)).err
  ELSE /\ HeaderGet(req.Header, <<"d", "a", "t", "e">>) # <<>>
       /\ ParseRFC1123(HeaderGet(req.Header, <<"d", "a", "t", "e">>)).err

\* C7: SignRequest signs with the time of a parsable x-amz-date header and
\* leaves the x-amz-date and date headers as they were; with no x-amz-date
\* header but a parsable date header it signs with that time and adds no
\* x-amz-date header; with neither it signs with the current time, and
\* leaves an x-amz-date header holding that time and no date header.
C7_TimestampResolution ==
  ret.op = "SignRequest" =>
    /\ (/\ HeaderGet(ret.before.Header, <<"x", "-", "a", "m", "z", "-", "d", "a", "t", "e">>) # <<>>
        /\ ~SelectedUnparsable(ret.before))
         => /\ ret.t = ParseBasic(HeaderGet(ret.before.Header,
                                            <<"x", "-", "a", "m", "z", "-", "d", "a", "t", "e">>)).t
            /\ Entry(r.Header, <<"x", "-", "a", "m", "z", "-", "d", "a", "t", "e">>)
                 = Entry(ret.before.Header, <<"x", "-", "a", "m", "z", "-", "d", "a", "t", "e">>)
            /\ Entry(r.Header, <<"d", "a", "t", "e">>) = Entry(ret.before.Header, <<"d", "a", "t", "e">>)
    /\ (/\ ~Entry(ret.before.Header, <<"x", "-", "a", "m", "z", "-", "d", "a", "t", "e">>).present
        /\ HeaderGet(ret.before.Header, <<"d", "a", "t", "e">>) # <<>>
        /\ ~SelectedUnparsable(ret.before))
         => /\ ret.t = ParseRFC1123(HeaderGet(ret.before.Header, <<"d", "a", "t", "e">>)).t
            /\ ~Entry(r.Header, <<"x", "-", "a", "m", "z", "-", "d", "a", "t", "e">>).present
    /\ (/\ ~Entry(ret.before.Header, <<"x", "-", "a", "m", "z", "-", "d", "a", "t", "e">>).present
        /\ ~Entry(ret.before.Header, <<"d", "a", "t", "e">>).present)
         => /\ ret.t = ret.now
            /\ Entry(r.Header, <<"x", "-", "a", "m", "z", "-", "d", "a", "t", "e">>).values
                 = <<FormatBasic(ret.now)>>
            /\ ~Entry(r.Header, <<"d", "a", "t", "e">>).present

\* C8 as stated: when the date header SignRequest selects is there and does
\* not parse, SignRequest returns an error and the Authorization header is
\* what it was before the call.
C8_UnparsableDateIsError ==
  (ret.op = "SignRequest" /\ SelectedUnparsable(ret.before))
    => /\ ret.err
       /\ Entry(r.Header, <<"A", "u", "t", "h", "o", "r", "i", "z", "a", "t", "i", "o", "n">>)
            = Entry(ret.before.Header, <<"A", "u", "t", "h", "o", "r", "i", "z", "a", "t", "i", "o", "n">>)

\* C8 as amended: when the date header SignRequest selects is there and
\* does not parse, SignRequest signs with the current time: it removes the
\* date header, sets the x-amz-date header to the current time, returns an
\* error only if reading the body fails, and otherwise sets the
\* Authorization header to the value it computed.
C8_UnparsableDateFallsBack ==
  (ret.op = "SignRequest" /\ SelectedUnparsable(ret.before))
    => /\ ret.t = ret.now
       /\ ret.now \in NowTimes
       /\ ~Entry(r.Header, <<"d", "a", "t", "e">>).present
       /\ Entry(r.Header, <<"x", "-", "a", "m", "z", "-", "d", "a", "t", "e">>).values = <<FormatBasic(ret.now)>>
       /\ ret.err <=> (ret.before.Body.present /\ ret.before.Body.fails)
       /\ ~ret.err => /\ ret.out # <<>>
                      /\ Entry(r.Header, <<"A", "u", "t", "h", "o", "r", "i", "z", "a", "t", "i", "o", "n">>).values
                           = <<ret.out>>

\* a request whose x-amz-date header does not parse, signed
C8_Witness ==
  /\ ret.op = "SignRequest"
  /\ ~ret.err
  /\ HeaderGet(ret.before.Header, <<"x", "-", "a", "m", "z", "-", "d", "a", "t", "e">>) = <<"2", "0", "1", "1", "-", "0", "9", "-", "0", "9">>
  /\ Entry(ret.before.Header, <<"d", "a", "t", "e">>).present
  /\ ret.t = [day |-> 12, sec |-> 7, nsec |-> 0]
  /\ HeaderGet(r.Header, <<"x", "-", "a", "m", "z", "-", "d", "a", "t", "e">>) = <<"2", "0", "1", "1", "0", "9", "1", "2", "T", "2", "3", "3", "6", "0", "7", "Z">>

\* C9: when SignRequest returns an error, the request's Authorization header
\* is what it was before the call: absent, or holding the old values.
C9_FailedSigningWritesNothing ==
  (ret.op = "SignRequest" /\ ret.err)
    => Entry(r.Header, <<"A", "u", "t", "h", "o", "r", "i", "z", "a", "t", "i", "o", "n">>)
         = Entry(ret.before.Header, <<"A", "u", "t", "h", "o", "r", "i", "z", "a", "t", "i", "o", "n">>)

\* a signing that failed on a request that carried an Authorization header
C9_Witness ==
  /\ ret.op = "SignRequest"
  /\ ret.err
  /\ ret.before.Body.fails
  /\ Entry(ret.before.Header, <<"A", "u", "t", "h", "o", "r", "i", "z", "a", "t", "i", "o", "n">>).values = <<<<"o", "l", "d">>>>
  /\ Entry(r.Header, <<"A", "u", "t", "h", "o", "r", "i", "z", "a", "t", "i", "o", "n">>).values = <<<<"o", "l", "d">>>>

\* the lines of the canonical request the last call returned
OutLines == Split(ret.out, "\n")

\* the names of its SignedHeaders line, the last line but one
OutSignedNames == Range(Split(OutLines[Len(OutLines) - 1], <<";">>[1]))

\* the names of its header lines: line 4 up to the empty line that ends
\* the block
OutHeaderNames ==
  {Split(OutLines[i], ":")[1] : i \in 4..(Len(OutLines) - 3)}

\* C10: for a non-empty signed-header set, a header of the request (other
\* than host, which the request's authority provides) has a line in
\* CanonicalHeaders and its name in SignedHeaders exactly when its
\* lower-cased name is the lower-cased form of a member of the set.
C10_SelectionIgnoresCase ==
  (ret.op = "CanonicalRequest" /\ ~ret.err /\ ret.sh # {})
    => \A key \in DOMAIN ret.before.Header \ {<<"H", "o", "s", "t">>} :
         /\ ToLower(key) \in OutSignedNames
              <=> \E m \in ret.sh : ToLower(m) = ToLower(key)
         /\ ToLower(key) \in OutHeaderNames
              <=> \E m \in ret.sh : ToLower(m) = ToLower(key)

\* the names of its SignedHeaders line, in the order of the line
OutSignedSeq == Split(OutLines[Len(OutLines) - 1], <<";">>[1])

\* the names of its header lines, in the order of the lines
OutHeaderSeq ==
  [i \in 1..(Len(OutLines) - 6) |-> Split(OutLines[i + 3], ":")[1]]

\* how many times a sequence of names holds name
Count(names, name) == Cardinality({i \in 1..Len(names) : names[i] = name})

\* C11: whatever the request's headers (a Host entry among them or not) and
\* whatever the signed-header set (empty, holding host, or not holding it),
\* the SignedHeaders line of the canonical request names host exactly once,
\* exactly one line of its header block starts with host:, and the line and
\* the block name the same headers in the same order.
C11_HostSignedOnce ==
  (ret.op = "CanonicalRequest" /\ ~ret.err)
    => /\ Count(OutSignedSeq, <<"h", "o", "s", "t">>) = 1
       /\ Cardinality({i \in 4..(Len(OutLines) - 3) :
                         HasPrefix(OutLines[i], <<"h", "o", "s", "t", ":">>)}) = 1
       /\ OutSignedSeq = OutHeaderSeq

=============================================================================
